---- MODULE Spec2Model ----
(***************************************************************************)
(* HealthLLM starter (niksi-nova/swasthya-ai): the four API route stubs    *)
(* (pages/api/auth/login, pages/api/auth/signup, pages/api/upload,         *)
(* pages/api/llm) and the three client pages (Home, Dashboard, Upload).    *)
(*                                                                         *)
(* JavaScript values are tagged records [t, s]; a string is a sequence of  *)
(* characters.  A request body is what the framework hands the handler as  *)
(* req.body: null, or an object, a function from the field names that are  *)
(* present to their values.  One step of the model is one run-to-completion*)
(* segment of a handler: from its start, or from the resumption of an      *)
(* await or a callback, to the next await or to its end.                   *)
(*                                                                         *)
(* Four specifications share the variables: SpecApi drives the route       *)
(* handlers with arbitrary requests; SpecHome, SpecDash and SpecUpload     *)
(* each run one view of a page against the routes it calls.                *)
(***************************************************************************)
EXTENDS Naturals, Sequences, FiniteSets

VARIABLES
  apiPc,     \* "idle", "parsing" (form.parse pending), "done"
  apiReq,    \* the request the route handler was called with
  apiRes,    \* the responses the handler sent for apiReq, in order
  apiThrew,  \* the handler ended by an uncaught TypeError
  apiParse,  \* what form.parse handed to its callback
  isSignup,  \* Home: useState(false)
  form,      \* Home: the shared form record
  query,     \* Dashboard: the input text
  results,   \* Dashboard: the exchanges, as rendered
  file,      \* Upload: the selected file or null
  fetches,   \* every fetch the page issued, with its progress
  submits,   \* every submit event the page handled, with what it saw
  alerts,    \* every alert() shown, in order
  nav        \* every router.push() target, in order

vars == <<apiPc, apiReq, apiRes, apiThrew, apiParse, isSignup, form, query,
          results, file, fetches, submits, alerts, nav>>

apiVars == <<apiPc, apiReq, apiRes, apiThrew, apiParse>>
pageVars == <<isSignup, form, query, results, file, fetches, submits, alerts, nav>>

----------------------------------------------------------------------------
(* Bounds of the model.                                                    *)

\* longest string drawn for a body field, a prompt or a file name
MaxLen == 1
\* submit events handled by one view of a page
MaxSubmits == 2

----------------------------------------------------------------------------
(* JavaScript values.                                                      *)

Chars == {"a", "b"}

Strings == UNION {[1..n -> Chars] : n \in 0..MaxLen}

Undefined == [t |-> "undefined", s |-> <<>>]

Null == [t |-> "null", s |-> <<>>]

Str(s) == [t |-> "string", s |-> s]

\* the values a parsed JSON body can hold in a field
JsonValues == {Null} \cup {Str(s) : s \in Strings}

\* ToBoolean of a value: undefined, null and '' are falsy
Truthy(v) == v.t = "string" /\ v.s # <<>>

\* a || b
OrElse(a, b) == IF Truthy(a) THEN a ELSE b

\* ${v} in a template literal: ToString(v)
ToString(v) ==
  CASE v.t = "string" -> v.s
    [] v.t = "null" -> <<"null">>
    [] v.t = "undefined" -> <<"undefined">>

----------------------------------------------------------------------------
(* Requests and responses of the API routes.                               *)

Methods == {"POST", "GET", "PUT"}

BodyFields == {"username", "password", "prompt"}

NullBody == [t |-> "null", f |-> [k \in {} |-> Null]]

Obj(f) == [t |-> "object", f |-> f]

\* the values drawn for a field: any JSON value for prompt; null, '' and a
\* non-empty string for the others
FieldValues(k) ==
  IF k = "prompt" THEN JsonValues ELSE {Null, Str(<<>>), Str(<<"a">>)}

\* the objects with the fields D present
Objects(D) == {Obj(f) : f \in {g \in [D -> JsonValues] : \A k \in D : g[k] \in FieldValues(k)}}

\* req.body: null or undefined (the JSON text null, no parsed body), or an
\* object
Bodies == {NullBody} \cup UNION {Objects(D) : D \in SUBSET BodyFields}

\* body.k, for a body that is an object
Get(body, k) == IF k \in DOMAIN body.f THEN body.f[k] ELSE Undefined

\* a file part, as formidable hands it over
Part(name) == [originalFilename |-> name]

\* the field names drawn for file parts
PartFields == {"file", "doc"}

NoFiles == [k \in {} |-> Part(<<>>)]

\* the files of a parsed multipart body, by field name
FilesSets == UNION {[D -> {Part(n) : n \in Strings}] : D \in SUBSET PartFields}

\* a multipart body: whether it is malformed, and its file parts
Multipart(bad, files) == [malformed |-> bad, files |-> files]

NoForm == Multipart(FALSE, NoFiles)

Multiparts == {Multipart(bad, fs) : bad \in BOOLEAN, fs \in FilesSets}

Req(route, method, body, mp) ==
  [route |-> route, method |-> method, body |-> body, multipart |-> mp]

EndBody == [kind |-> "end"]

JsonOk(b) == [kind |-> "json", ok |-> b]

JsonUpload(fn) == [kind |-> "json", ok |-> TRUE, filename |-> fn]

JsonText(text) == [kind |-> "json", text |-> text]

\* res.status(n).end() or res.status(n).json(body)
Res(status, body) == [status |-> status, body |-> body]

\* how a call of a handler ends: the responses sent, an uncaught exception,
\* a form.parse left pending
Outcome(sent, threw, parsing) ==
  [sent |-> sent, threw |-> threw, parsing |-> parsing]

----------------------------------------------------------------------------
(* The route handlers.                                                     *)

\* login without the `return` before the 200 response
LoginHandlerNoReturn(req) ==
  IF req.method # "POST" THEN Outcome(<<Res(405, EndBody)>>, FALSE, FALSE)
  ELSE IF req.body.t = "null" THEN Outcome(<<>>, TRUE, FALSE)
  ELSE IF Truthy(Get(req.body, "username")) /\ Truthy(Get(req.body, "password"))
       THEN Outcome(<<Res(200, JsonOk(TRUE)), Res(400, JsonOk(FALSE))>>, FALSE, FALSE)
       ELSE Outcome(<<Res(400, JsonOk(FALSE))>>, FALSE, FALSE)

\* login reading req.body before it looks at the method
LoginHandlerBodyFirst(req) ==
  IF req.body.t = "null" THEN Outcome(<<>>, TRUE, FALSE)
  ELSE IF req.method # "POST" THEN Outcome(<<Res(405, EndBody)>>, FALSE, FALSE)
  ELSE IF Truthy(Get(req.body, "username")) /\ Truthy(Get(req.body, "password"))
       THEN Outcome(<<Res(200, JsonOk(TRUE))>>, FALSE, FALSE)
       ELSE Outcome(<<Res(400, JsonOk(FALSE))>>, FALSE, FALSE)

\* pages/api/auth/login: `const { username, password } = req.body` throws a
\* TypeError when req.body is null
LoginHandler(req) ==
  IF req.method # "POST" THEN Outcome(<<Res(405, EndBody)>>, FALSE, FALSE)
  ELSE IF req.body.t = "null" THEN Outcome(<<>>, TRUE, FALSE)
  ELSE IF Truthy(Get(req.body, "username")) /\ Truthy(Get(req.body, "password"))
       THEN Outcome(<<Res(200, JsonOk(TRUE))>>, FALSE, FALSE)
       ELSE Outcome(<<Res(400, JsonOk(FALSE))>>, FALSE, FALSE)

\* pages/api/auth/signup: `body && body.username && body.password`
SignupHandler(req) ==
  IF req.method # "POST" THEN Outcome(<<Res(405, EndBody)>>, FALSE, FALSE)
  ELSE IF /\ req.body.t # "null"
          /\ Truthy(Get(req.body, "username"))
          /\ Truthy(Get(req.body, "password"))
       THEN Outcome(<<Res(200, JsonOk(TRUE))>>, FALSE, FALSE)
       ELSE Outcome(<<Res(400, JsonOk(FALSE))>>, FALSE, FALSE)

\* `Simulated LLM answer for prompt: "${prompt}"\n\n(Replace ...)`: the two
\* fixed parts are one element each, the prompt is spliced in between
LlmText(prompt) ==
  <<"Simulated LLM answer for prompt: \"">> \o ToString(prompt)
    \o <<"\"\n\n(Replace /api/llm with your real LLM integration.)">>

\* pages/api/llm: `const { prompt } = req.body` throws a TypeError when
\* req.body is null
LlmHandler(req) ==
  IF req.method # "POST" THEN Outcome(<<Res(405, EndBody)>>, FALSE, FALSE)
  ELSE IF req.body.t = "null" THEN Outcome(<<>>, TRUE, FALSE)
  ELSE Outcome(<<Res(200, JsonText(LlmText(Get(req.body, "prompt"))))>>, FALSE, FALSE)

\* pages/api/upload, up to form.parse(req, callback)
UploadHandler(req) ==
  IF req.method # "POST" THEN Outcome(<<Res(405, EndBody)>>, FALSE, FALSE)
  ELSE Outcome(<<>>, FALSE, TRUE)

\* files.file?.originalFilename
OriginalFilename(files) ==
  IF "file" \in DOMAIN files THEN Str(files["file"].originalFilename) ELSE Undefined

\* the callback answering 500 without the `return`
ParseCallbackNoReturn(err, files) ==
  IF err THEN <<Res(500, EndBody), Res(200, JsonUpload(OrElse(OriginalFilename(files), Null)))>>
  ELSE <<Res(200, JsonUpload(OrElse(OriginalFilename(files), Null)))>>

\* the callback given to form.parse: (err, fields, files) => ...
ParseCallback(err, files) ==
  IF err THEN <<Res(500, EndBody)>>
  ELSE <<Res(200, JsonUpload(OrElse(OriginalFilename(files), Null)))>>

----------------------------------------------------------------------------
(* State after construction: no request handled, every page freshly        *)
(* mounted.                                                                *)

FormFields ==
  {"name", "age", "username", "password", "disease", "email", "phone",
   "foodHabits", "gender"}

\* the Upload page's file state: null, or the File picked
NullFile == [null |-> TRUE, name |-> <<>>]

File(name) == [null |-> FALSE, name |-> name]

NoReq == Req("none", "GET", NullBody, NoForm)

\* form.parse not called back (yet)
NoParse == [called |-> FALSE, err |-> FALSE, files |-> NoFiles]

Init ==
  /\ apiPc = "idle"
  /\ apiReq = NoReq
  /\ apiRes = <<>>
  /\ apiThrew = FALSE
  /\ apiParse = NoParse
  /\ isSignup = FALSE
  /\ form = [k \in FormFields |-> <<>>]
  /\ query = <<>>
  /\ results = <<>>
  /\ file = NullFile
  /\ fetches = <<>>
  /\ submits = <<>>
  /\ alerts = <<>>
  /\ nav = <<>>

----------------------------------------------------------------------------
(* SpecApi: the framework calls a route's handler with a request.          *)

ApiLogin ==
  \E m \in Methods, b \in Bodies :
    LET req == Req("login", m, b, NoForm)
        out == LoginHandler(req)
    IN /\ apiPc # "parsing"
       /\ apiReq' = req
       /\ apiRes' = out.sent
       /\ apiThrew' = out.threw
       /\ apiPc' = "done"
       /\ apiParse' = NoParse
       /\ UNCHANGED pageVars

ApiSignup ==
  \E m \in Methods, b \in Bodies :
    LET req == Req("signup", m, b, NoForm)
        out == SignupHandler(req)
    IN /\ apiPc # "parsing"
       /\ apiReq' = req
       /\ apiRes' = out.sent
       /\ apiThrew' = out.threw
       /\ apiPc' = "done"
       /\ apiParse' = NoParse
       /\ UNCHANGED pageVars

ApiLlm ==
  \E m \in Methods, b \in Bodies :
    LET req == Req("llm", m, b, NoForm)
        out == LlmHandler(req)
    IN /\ apiPc # "parsing"
       /\ apiReq' = req
       /\ apiRes' = out.sent
       /\ apiThrew' = out.threw
       /\ apiPc' = "done"
       /\ apiParse' = NoParse
       /\ UNCHANGED pageVars

\* bodyParser is off for the upload route: req.body is never set, the
\* handler returns with form.parse pending unless it answered 405
ApiUpload ==
  \E m \in Methods, mp \in Multiparts :
    LET req == Req("upload", m, NullBody, mp)
        out == UploadHandler(req)
    IN /\ apiPc # "parsing"
       /\ apiReq' = req
       /\ apiRes' = out.sent
       /\ apiThrew' = out.threw
       /\ apiPc' = IF out.parsing THEN "parsing" ELSE "done"
       /\ apiParse' = NoParse
       /\ UNCHANGED pageVars

\* formidable calls the callback once: with err for a malformed body (or a
\* stream that fails), else with the files it parsed
ApiUploadParsed ==
  \E err \in BOOLEAN :
    /\ apiPc = "parsing"
    /\ apiReq.multipart.malformed => err
    /\ apiParse' = [called |-> TRUE, err |-> err,
                    files |-> IF err THEN NoFiles ELSE apiReq.multipart.files]
    /\ apiRes' = apiRes \o ParseCallback(err, apiParse'.files)
    /\ apiPc' = "done"
    /\ UNCHANGED <<apiReq, apiThrew>>
    /\ UNCHANGED pageVars

NextApi == ApiLogin \/ ApiSignup \/ ApiLlm \/ ApiUpload \/ ApiUploadParsed

SpecApi == Init /\ [][NextApi]_vars

----------------------------------------------------------------------------
(* What a page's fetch gets back.                                          *)

\* the route a URL is served by (the file under pages/api)
Route(url) ==
  CASE url = "/api/auth/login" -> "login"
    [] url = "/api/auth/signup" -> "signup"
    [] url = "/api/upload" -> "upload"
    [] url = "/api/llm" -> "llm"

\* the response of a JSON route to req; the framework answers 500 for a
\* handler that throws
Serve(req) ==
  LET out == CASE req.route = "login" -> LoginHandler(req)
               [] req.route = "signup" -> SignupHandler(req)
               [] req.route = "llm" -> LlmHandler(req)
  IN IF out.threw THEN Res(500, EndBody) ELSE out.sent[1]

\* the response of the upload route to req when form.parse ends with err
ServeUpload(req, err) ==
  LET out == UploadHandler(req)
  IN IF out.parsing
     THEN ParseCallback(err, IF err THEN NoFiles ELSE req.multipart.files)[1]
     ELSE out.sent[1]

\* a response that does not come from the route: the server or something
\* between it and the page failing
Unavailable == Res(503, EndBody)

\* res.ok
Ok(res) == res.status \in 200..299

\* the view is still the page shown: no router.push has left it
Mounted == nav = <<>>

\* fetch k has been issued and nothing has come back yet
Inflight(k) == k \in DOMAIN fetches /\ fetches[k].status = "inflight"

----------------------------------------------------------------------------
(* SpecHome: one view of the Home page (Home).                             *)

\* the inputs the form shows in each mode
Rendered(signup) == IF signup THEN FormFields ELSE {"username", "password"}

\* the inputs marked `required` among those shown
Required(signup) ==
  IF signup THEN {"name", "age", "username", "password", "email"}
  ELSE {"username", "password"}

\* the inputs the model types into: the required ones and one optional one
\* (disease, phone and foodHabits are handled as gender is and stay '')
TypedFields == {"name", "age", "username", "password", "email", "gender"}

\* what is typed into an input
TypedValues == {<<>>, <<"a">>}

\* JSON.stringify of the record whose keys are D, then the route's JSON parse
JsonBody(D) == Obj([k \in D |-> Str(form[k])])

\* const change = (e) => setForm({...form, [e.target.name]: e.target.value})
change ==
  \E name \in TypedFields \cap Rendered(isSignup), value \in TypedValues :
    /\ Mounted
    /\ form' = [form EXCEPT ![name] = value]
    /\ UNCHANGED <<isSignup, query, results, file, fetches, submits, alerts, nav>>
    /\ UNCHANGED apiVars

\* onClick={()=>setIsSignup(!isSignup)}
setIsSignup ==
  /\ Mounted
  /\ isSignup' = ~isSignup
  /\ UNCHANGED <<form, query, results, file, fetches, submits, alerts, nav>>
  /\ UNCHANGED apiVars

\* the browser lets the form submit: every required input shown is filled
CanSubmit == \A k \in Required(isSignup) : form[k] # <<>>

\* handleLogin posting the whole record
handleLoginFullRecord ==
  /\ Mounted /\ ~isSignup /\ CanSubmit
  /\ Len(submits) < MaxSubmits
  /\ submits' = Append(submits, [isSignup |-> isSignup])
  /\ fetches' = Append(fetches,
       [sub |-> Len(submits) + 1, url |-> "/api/auth/login", method |-> "POST",
        body |-> JsonBody(FormFields), status |-> "inflight"])
  /\ UNCHANGED <<isSignup, form, query, results, file, alerts, nav>>
  /\ UNCHANGED apiVars

\* handleLogin, up to `await fetch('/api/auth/login', ...)`
handleLogin ==
  /\ Mounted /\ ~isSignup /\ CanSubmit
  /\ Len(submits) < MaxSubmits
  /\ submits' = Append(submits, [isSignup |-> isSignup])
  /\ fetches' = Append(fetches,
       [sub |-> Len(submits) + 1, url |-> "/api/auth/login", method |-> "POST",
        body |-> JsonBody({"username", "password"}), status |-> "inflight"])
  /\ UNCHANGED <<isSignup, form, query, results, file, alerts, nav>>
  /\ UNCHANGED apiVars

\* handleSignup, up to `await fetch('/api/auth/signup', ...)`
handleSignup ==
  /\ Mounted /\ isSignup /\ CanSubmit
  /\ Len(submits) < MaxSubmits
  /\ submits' = Append(submits, [isSignup |-> isSignup])
  /\ fetches' = Append(fetches,
       [sub |-> Len(submits) + 1, url |-> "/api/auth/signup", method |-> "POST",
        body |-> JsonBody(FormFields), status |-> "inflight"])
  /\ UNCHANGED <<isSignup, form, query, results, file, alerts, nav>>
  /\ UNCHANGED apiVars

\* handleLogin and handleSignup from the await on: the branch on res.ok
\* (the handler still runs when an earlier push has left the page)
homeResumed ==
  \E k \in DOMAIN fetches :
    \E res \in {Serve(Req(Route(fetches[k].url), fetches[k].method,
                          fetches[k].body, NoForm)), Unavailable} :
      /\ Inflight(k)
      /\ IF Ok(res)
         THEN /\ fetches' = [fetches EXCEPT ![k].status = "ok"]
              /\ nav' = Append(nav, "/dashboard")
              /\ UNCHANGED alerts
         ELSE /\ fetches' = [fetches EXCEPT ![k].status = "failed"]
              /\ alerts' = Append(alerts,
                   IF fetches[k].url = "/api/auth/login"
                   THEN "Login failed" ELSE "Sign up failed")
              /\ UNCHANGED nav
      /\ UNCHANGED <<isSignup, form, query, results, file, submits>>
      /\ UNCHANGED apiVars

\* the fetch rejects (no connection): the await throws, nothing catches it
fetchRejected ==
  \E k \in DOMAIN fetches :
    /\ Inflight(k)
    /\ fetches' = [fetches EXCEPT ![k].status = "rejected"]
    /\ UNCHANGED <<isSignup, form, query, results, file, submits, alerts, nav>>
    /\ UNCHANGED apiVars

NextHome ==
  change \/ setIsSignup \/ handleLogin \/ handleSignup \/ homeResumed \/ fetchRejected

SpecHome == Init /\ [][NextHome]_vars

----------------------------------------------------------------------------
(* SpecDash: one view of the Dashboard page (Dashboard).                   *)

\* what is typed into the query input
TypedQueries == {<<>>, <<"a">>, <<"b">>}

\* no response read yet
NoRes == Res(0, EndBody)

\* the fetches still under way: issued, neither finished nor failed
Pending == {k \in DOMAIN fetches : fetches[k].status \in {"inflight", "received"}}

\* the fetches whose exchange has been handed to setResults
Done == {k \in DOMAIN fetches : fetches[k].status = "done"}

\* onChange={(e)=>setQuery(e.target.value)}
setQuery ==
  \E value \in TypedQueries :
    /\ Mounted
    /\ query' = value
    /\ UNCHANGED <<isSignup, form, results, file, fetches, submits, alerts, nav>>
    /\ UNCHANGED apiVars

\* askLLM, up to `await fetch('/api/llm', ...)`: the handler keeps the query
\* of the render it was created in (q) for the rest of its run
askLLM ==
  /\ Mounted
  /\ Len(submits) < MaxSubmits
  /\ submits' = Append(submits, [query |-> query, overlaps |-> Pending # {}])
  /\ fetches' = Append(fetches,
       [sub |-> Len(submits) + 1, url |-> "/api/llm", method |-> "POST",
        body |-> Obj([k \in {"prompt"} |-> Str(query)]), q |-> query,
        status |-> "inflight", res |-> NoRes, order |-> 0])
  /\ UNCHANGED <<isSignup, form, query, results, file, alerts, nav>>
  /\ UNCHANGED apiVars

\* askLLM from the first await on: `const data = await res.json()` starts
\* reading the body, whatever the status is
askLLMFetched ==
  \E k \in DOMAIN fetches :
    \E res \in {Serve(Req(Route(fetches[k].url), fetches[k].method,
                          fetches[k].body, NoForm)), Unavailable} :
      /\ Inflight(k)
      /\ fetches' = [fetches EXCEPT ![k].status = "received", ![k].res = res]
      /\ UNCHANGED <<isSignup, form, query, results, file, submits, alerts, nav>>
      /\ UNCHANGED apiVars

\* the exchange built from the input as it is when the response arrives
ExchangeOfInput(k, data) == [input |-> query, output |-> data.text]

\* {input: query, output: data.text}, query being the handler's own
Exchange(k, data) == [input |-> fetches[k].q, output |-> data.text]

\* an exchange put after the earlier ones
Appended(entry, prev) == prev \o <<entry>>

\* prev => [entry, ...prev]
Prepended(entry, prev) == <<entry>> \o prev

\* askLLM from the second await on: setResults(prev => ...) and
\* setQuery(''); React drops both once the view is gone
askLLMParsed ==
  \E k \in DOMAIN fetches :
    /\ fetches[k].status = "received"
    /\ fetches[k].res.body.kind = "json"
    /\ fetches' = [fetches EXCEPT ![k].status = "done",
                                  ![k].order = Cardinality(Done) + 1]
    /\ IF Mounted
       THEN /\ results' = Prepended(Exchange(k, fetches[k].res.body), results)
            /\ query' = <<>>
       ELSE UNCHANGED <<results, query>>
    /\ UNCHANGED <<isSignup, form, file, submits, alerts, nav>>
    /\ UNCHANGED apiVars

\* res.json() rejects on a body that is not JSON: the await throws, nothing
\* catches it
askLLMParseFailed ==
  \E k \in DOMAIN fetches :
    /\ fetches[k].status = "received"
    /\ fetches[k].res.body.kind # "json"
    /\ fetches' = [fetches EXCEPT ![k].status = "failed"]
    /\ UNCHANGED <<isSignup, form, query, results, file, submits, alerts, nav>>
    /\ UNCHANGED apiVars

\* onClick={()=>router.push('/upload')}, of either button
pushUpload ==
  /\ Mounted
  /\ nav' = Append(nav, "/upload")
  /\ UNCHANGED <<isSignup, form, query, results, file, fetches, submits, alerts>>
  /\ UNCHANGED apiVars

NextDash ==
  \/ setQuery \/ askLLM \/ askLLMFetched \/ askLLMParsed \/ askLLMParseFailed
  \/ fetchRejected \/ pushUpload

SpecDash == Init /\ [][NextDash]_vars

----------------------------------------------------------------------------
(* SpecUpload: one view of the Upload page (Upload).                       *)

\* the names of the files picked
PickedNames == {<<"a">>, <<"b">>}

\* onChange={(e)=>setFile(e.target.files?.[0]||null)}
setFile ==
  \E f \in {NullFile} \cup {File(n) : n \in PickedNames} :
    /\ Mounted
    /\ file' = f
    /\ UNCHANGED <<isSignup, form, query, results, fetches, submits, alerts, nav>>
    /\ UNCHANGED apiVars

\* fd.append('file', file), sent as a multipart body
FormData(f) == Multipart(FALSE, [k \in {"file"} |-> Part(f.name)])

\* submit without its `if(!file)` guard
submitUnguarded ==
  /\ Mounted
  /\ Len(submits) < MaxSubmits
  /\ submits' = Append(submits, [file |-> file])
  /\ fetches' = Append(fetches,
       [sub |-> Len(submits) + 1, url |-> "/api/upload", method |-> "POST",
        multipart |-> FormData(file), status |-> "inflight"])
  /\ UNCHANGED alerts
  /\ UNCHANGED <<isSignup, form, query, results, file, nav>>
  /\ UNCHANGED apiVars

\* submit, up to its early return or to `await fetch('/api/upload', ...)`
submit ==
  /\ Mounted
  /\ Len(submits) < MaxSubmits
  /\ submits' = Append(submits, [file |-> file])
  /\ IF file.null
     THEN /\ alerts' = Append(alerts, "Choose a PDF")
          /\ UNCHANGED fetches
     ELSE /\ fetches' = Append(fetches,
               [sub |-> Len(submits) + 1, url |-> "/api/upload", method |-> "POST",
                multipart |-> FormData(file), status |-> "inflight"])
          /\ UNCHANGED alerts
  /\ UNCHANGED <<isSignup, form, query, results, file, nav>>
  /\ UNCHANGED apiVars

\* submit from the await on: the branch on res.ok
submitResumed ==
  \E k \in DOMAIN fetches, err \in BOOLEAN :
    \E res \in {ServeUpload(Req(Route(fetches[k].url), fetches[k].method,
                                NullBody, fetches[k].multipart), err),
                Unavailable} :
      /\ Inflight(k)
      /\ IF Ok(res)
         THEN /\ fetches' = [fetches EXCEPT ![k].status = "ok"]
              /\ alerts' = Append(alerts, "Uploaded")
              /\ nav' = Append(nav, "/dashboard")
         ELSE /\ fetches' = [fetches EXCEPT ![k].status = "failed"]
              /\ alerts' = Append(alerts, "Upload failed")
              /\ UNCHANGED nav
      /\ UNCHANGED <<isSignup, form, query, results, file, submits>>
      /\ UNCHANGED apiVars

NextUpload == setFile \/ submit \/ submitResumed \/ fetchRejected

SpecUpload == Init /\ [][NextUpload]_vars

----------------------------------------------------------------------------
(* Claims about the route handlers, checked under SpecApi.                 *)

\* field k of the body is present and a string of at least one character
HasNonEmpty(body, k) ==
  /\ body.t = "object"
  /\ k \in DOMAIN body.f
  /\ body.f[k].t = "string"
  /\ Len(body.f[k].s) > 0

\* p occurs in t as a run of consecutive elements
IsSubstring(p, t) ==
  \E i \in 0..Len(t) : i + Len(p) <= Len(t) /\ SubSeq(t, i + 1, i + Len(p)) = p

\* the handler of the auth route `route` has handled a POST
AuthPostDone ==
  apiPc = "done" /\ apiReq.route \in {"login", "signup"} /\ apiReq.method = "POST"

\* C1: a POST to the login or the signup stub whose body carries a non-empty
\* username and a non-empty password, whatever else it carries, is answered
\* by exactly one response, 200 {ok:true}.
C1_ValidCredentialsAccepted ==
  (AuthPostDone /\ HasNonEmpty(apiReq.body, "username")
                /\ HasNonEmpty(apiReq.body, "password"))
    => apiRes = <<Res(200, JsonOk(TRUE))>> /\ ~apiThrew

\* the login stub has answered 200 {ok:true} to credentials sent along with
\* another field
C1_Witness ==
  /\ AuthPostDone /\ apiReq.route = "login"
  /\ HasNonEmpty(apiReq.body, "username") /\ HasNonEmpty(apiReq.body, "password")
  /\ "prompt" \in DOMAIN apiReq.body.f
  /\ apiRes = <<Res(200, JsonOk(TRUE))>>

\* C2 (as claimed): a POST to the login or the signup stub in which username
\* or password is missing (absent, null, empty, or no body fields at all) is
\* answered 400 {ok:false} and ends in no other way.
C2_MissingCredentialsRejected ==
  (AuthPostDone /\ ~(HasNonEmpty(apiReq.body, "username")
                     /\ HasNonEmpty(apiReq.body, "password")))
    => apiRes = <<Res(400, JsonOk(FALSE))>> /\ ~apiThrew

\* C3: on each of the four routes a request whose method is not POST is
\* answered 405 with an empty body whatever its body is: the handler does
\* not read the body (it cannot throw on it) and starts no multipart parse.
C3_NonPostIs405 ==
  (apiPc # "idle" /\ apiReq.method # "POST")
    => /\ apiPc = "done"
       /\ apiRes = <<Res(405, EndBody)>>
       /\ ~apiThrew
       /\ ~apiParse.called

\* a GET with a null body has been answered 405 by a route that reads the
\* body of a POST
C3_Witness ==
  /\ apiPc = "done" /\ apiReq.route = "login" /\ apiReq.method = "GET"
  /\ apiReq.body = NullBody
  /\ apiRes = <<Res(405, EndBody)>>

\* C4 (as claimed): every POST to the LLM stub is answered 200 with a text
\* that contains the submitted prompt.
C4_LlmAlwaysAnswers ==
  (apiPc = "done" /\ apiReq.route = "llm" /\ apiReq.method = "POST")
    => /\ ~apiThrew
       /\ Len(apiRes) = 1
       /\ apiRes[1].status = 200
       /\ apiRes[1].body.kind = "json"
       /\ (apiReq.body.t = "object" /\ "prompt" \in DOMAIN apiReq.body.f
           /\ apiReq.body.f["prompt"].t = "string")
            => IsSubstring(apiReq.body.f["prompt"].s, apiRes[1].body.text)

\* the upload stub was called with a POST
UploadPost == apiPc # "idle" /\ apiReq.route = "upload" /\ apiReq.method = "POST"

\* C5 (as claimed): a POST to the upload stub gets exactly one response, sent
\* when parsing has finished: 500 with no body when parsing failed, else 200
\* {ok:true, filename} with the original name of the file in field `file`,
\* or null when there is no such file.
C5_FilenameOrNullWhenAbsent ==
  UploadPost =>
    /\ apiPc = "parsing" => apiRes = <<>> /\ ~apiParse.called
    /\ apiPc = "done" =>
         /\ apiParse.called
         /\ apiRes = <<IF apiParse.err THEN Res(500, EndBody)
                       ELSE Res(200, JsonUpload(
                              IF "file" \in DOMAIN apiParse.files
                              THEN Str(apiParse.files["file"].originalFilename)
                              ELSE Null))>>

\* C5 (amended): as claimed, but filename is null also when the file in field
\* `file` has an empty original name.
C5_FilenameOrNull ==
  UploadPost =>
    /\ apiPc = "parsing" => apiRes = <<>> /\ ~apiParse.called
    /\ apiPc = "done" =>
         /\ apiParse.called
         /\ apiRes = <<IF apiParse.err THEN Res(500, EndBody)
                       ELSE Res(200, JsonUpload(
                              IF /\ "file" \in DOMAIN apiParse.files
                                 /\ apiParse.files["file"].originalFilename # <<>>
                              THEN Str(apiParse.files["file"].originalFilename)
                              ELSE Null))>>

\* a parsed upload of a named file has been answered with its name
C5_Witness ==
  /\ UploadPost /\ apiPc = "done" /\ ~apiParse.err
  /\ "file" \in DOMAIN apiParse.files
  /\ apiParse.files["file"] = Part(<<"a">>)
  /\ apiRes = <<Res(200, JsonUpload(Str(<<"a">>)))>>

----------------------------------------------------------------------------
(* Claims about the Home page, checked under SpecHome.                     *)

\* the fetches whose status is st
WithStatus(st) == {k \in DOMAIN fetches : fetches[k].status = st}

\* every submit so far issued exactly one POST, to the stub of the mode it
\* was made in and with that mode's fields; a push to the dashboard was made
\* for each success response and for nothing else, an alert for each failure
\* response and for nothing else
C8_State ==
  /\ \A i \in DOMAIN submits :
       Cardinality({k \in DOMAIN fetches : fetches[k].sub = i}) = 1
  /\ \A k \in DOMAIN fetches :
       /\ fetches[k].sub \in DOMAIN submits
       /\ fetches[k].method = "POST"
       /\ fetches[k].url = IF submits[fetches[k].sub].isSignup
                           THEN "/api/auth/signup" ELSE "/api/auth/login"
       /\ DOMAIN fetches[k].body.f = IF submits[fetches[k].sub].isSignup
                                     THEN FormFields ELSE {"username", "password"}
  /\ nav = [i \in 1..Cardinality(WithStatus("ok")) |-> "/dashboard"]
  /\ Len(alerts) = Cardinality(WithStatus("failed"))
  /\ \A i \in DOMAIN alerts : alerts[i] \in {"Login failed", "Sign up failed"}

\* a submit sends the values the shared record holds at that moment; a
\* change of mode changes no field of the record
C8_Step ==
  /\ Len(fetches') > Len(fetches) =>
       /\ Len(fetches') = Len(fetches) + 1
       /\ \A k \in DOMAIN fetches'[Len(fetches')].body.f :
            fetches'[Len(fetches')].body.f[k] = Str(form[k])
  /\ isSignup' # isSignup => form' = form

\* C8: on the Home page each submit issues exactly one POST to the stub of
\* the current mode (login: only username and password of the shared record;
\* signup: the whole record); the page pushes the dashboard if and only if
\* the response is an HTTP success and alerts, without pushing, otherwise;
\* toggling the mode leaves every field of the record unchanged.
C8_HomeSubmit == []C8_State /\ [][C8_Step]_vars

\* a login and a signup were submitted from the same record, one answered
\* with success and one with failure, with a field that login does not send
C8_Witness ==
  /\ Len(fetches) = 2
  /\ fetches[1].url # fetches[2].url
  /\ \E k \in DOMAIN fetches : fetches[k].status = "failed"
  /\ \E k \in DOMAIN fetches : fetches[k].status = "ok"
  /\ form["gender"] # <<>>
  /\ Len(alerts) = 1 /\ Len(nav) = 1

----------------------------------------------------------------------------
(* Claims about the Dashboard page, checked under SpecDash.                *)

\* every submit's request has been answered by the LLM stub and its
\* exchange recorded, in a view that is still shown
AllAnswered ==
  /\ Mounted
  /\ submits # <<>>
  /\ Len(fetches) = Len(submits)
  /\ \A k \in DOMAIN fetches : fetches[k].status = "done"

\* C6 (as claimed): once all responses have arrived the results list holds
\* one exchange per submit, most recently submitted first.
C6_NewestSubmitFirst ==
  AllAnswered =>
    /\ Len(results) = Len(submits)
    /\ \A i \in DOMAIN results :
         results[i].input = submits[Len(submits) + 1 - i].query

\* C6 (amended): once all responses have arrived the results list holds one
\* exchange per submit, most recently answered first; that is most recently
\* submitted first when no submit was made while a request was under way.
C6_NewestAnswerFirst ==
  AllAnswered =>
    /\ Len(results) = Len(submits)
    /\ \A i \in DOMAIN results :
         \E k \in DOMAIN fetches :
           /\ fetches[k].order = Len(results) + 1 - i
           /\ results[i].input = submits[fetches[k].sub].query
    /\ (\A j \in DOMAIN submits : ~submits[j].overlaps) =>
         \A i \in DOMAIN results :
           results[i].input = submits[Len(submits) + 1 - i].query

\* two different prompts were submitted one after the other's answer, and
\* both are listed, the later one first
C6_Witness ==
  /\ AllAnswered
  /\ Len(submits) = 2
  /\ ~submits[2].overlaps
  /\ submits[1].query = <<"a">> /\ submits[2].query = <<"b">>
  /\ results[1].input = <<"b">> /\ results[2].input = <<"a">>

\* C7 (as claimed): whenever the request of a submit fails (a non-success
\* status or a fetch that does not complete) the failure is surfaced as an
\* alert by the time the handler ends, no further request is issued for it
\* and nothing is navigated to.
C7_FailureAlerted ==
  [][(\E k \in DOMAIN fetches :
        /\ fetches[k].status \in {"inflight", "received"}
        /\ fetches'[k].status \in {"failed", "rejected"})
      => /\ Len(alerts') = Len(alerts) + 1
         /\ Len(fetches') = Len(fetches)
         /\ nav' = nav]_vars

\* C10: whatever the interleaving of submits, edits and arriving responses,
\* each entry of the results list is the exchange of one request of its
\* own: its input is the prompt that request sent, which is what the input
\* held at that submit, and its output is the text returned to that request,
\* which embeds the input; every answered request has exactly one entry.
C10_EntriesPairOwnRequest ==
  Mounted =>
    /\ Len(results) = Cardinality(Done)
    /\ \A i \in DOMAIN results :
         \E k \in Done :
           /\ fetches[k].order = Len(results) + 1 - i
           /\ results[i].input = fetches[k].body.f["prompt"].s
           /\ results[i].input = submits[fetches[k].sub].query
           /\ results[i].output = fetches[k].res.body.text
           /\ IsSubstring(results[i].input, results[i].output)

\* two overlapping requests with different prompts were answered in the
\* reverse order, and the input was edited after the second submit
C10_Witness ==
  /\ Mounted
  /\ Len(fetches) = 2 /\ Done = {1, 2}
  /\ submits[2].overlaps
  /\ fetches[1].order = 2 /\ fetches[2].order = 1
  /\ fetches[1].q = <<"a">> /\ fetches[2].q = <<"b">>
  /\ results[1].input = <<"a">>

----------------------------------------------------------------------------
(* Claims about the Upload page, checked under SpecUpload.                 *)

\* how many alerts showed msg
Alerted(msg) == Cardinality({i \in DOMAIN alerts : alerts[i] = msg})

\* a submit with no file selected issued no request and alerted; a submit
\* with a file issued exactly one POST to /api/upload with that file in
\* field `file`; each success response was followed by an alert and a push
\* to the dashboard, each failure response by an alert and no push
C9_State ==
  /\ \A i \in DOMAIN submits :
       Cardinality({k \in DOMAIN fetches : fetches[k].sub = i})
         = IF submits[i].file.null THEN 0 ELSE 1
  /\ \A k \in DOMAIN fetches :
       /\ fetches[k].sub \in DOMAIN submits
       /\ fetches[k].url = "/api/upload"
       /\ fetches[k].method = "POST"
       /\ DOMAIN fetches[k].multipart.files = {"file"}
       /\ fetches[k].multipart.files["file"].originalFilename
            = submits[fetches[k].sub].file.name
  /\ Alerted("Choose a PDF")
       = Cardinality({i \in DOMAIN submits : submits[i].file.null})
  /\ Alerted("Uploaded") = Cardinality(WithStatus("ok"))
  /\ Alerted("Upload failed") = Cardinality(WithStatus("failed"))
  /\ nav = [i \in 1..Cardinality(WithStatus("ok")) |-> "/dashboard"]

\* a submit changes neither the selected file nor, by itself, the page
C9_Step ==
  Len(submits') > Len(submits) =>
    /\ file' = file
    /\ nav' = nav
    /\ submits'[Len(submits')].file = file

\* C9: on the Upload page a submit with no file selected sends no request
\* (it alerts and leaves the state as it is); a submit with a file selected
\* sends exactly one POST carrying that file in field `file`, then alerts
\* and pushes the dashboard on HTTP success, or alerts without pushing on
\* HTTP failure.
C9_UploadSubmit == []C9_State /\ [][C9_Step]_vars

\* a submit without a file was followed by a submit of a file whose upload
\* succeeded
C9_Witness ==
  /\ Len(submits) = 2
  /\ submits[1].file.null /\ ~submits[2].file.null
  /\ Len(fetches) = 1 /\ fetches[1].status = "ok"
  /\ alerts = <<"Choose a PDF", "Uploaded">>
  /\ nav = <<"/dashboard">>

====
